---- MODULE Spec2Model ----
(***************************************************************************)
(* FinStream core: the SysEvent taxonomy (sysbus), the broadcast bus that  *)
(* main constructs with tokio::sync::broadcast::channel::<SysEvent>, and   *)
(* the logger's RELOAD_HANDLE cell (an RwLock<Option<ReloadHandle>>).      *)
(*                                                                         *)
(* The bus is the broadcast channel of main.rs:17.  Its operations are     *)
(* modelled as the channel executes them: a ring of `cap` slots, each      *)
(* holding the position it was written for (pos), the number of receivers  *)
(* that still have to read it (rem) and the value (val); a tail holding    *)
(* the next write position, the receiver count, the closed flag and the    *)
(* suspended receivers; and one read cursor (next) per receiver.  Every    *)
(* operation runs under the tail mutex or a slot lock, so each is one      *)
(* atomic action.  Positions are u64 in the program; the model uses        *)
(* unbounded integers, the initial slot position i - cap standing for      *)
(* i.wrapping_sub(cap) (2^64 publishes are out of every bound used here).  *)
(***************************************************************************)
EXTENDS Integers, Sequences, FiniteSets, TLC

\* ------------------------------------------------------------------ bounds
\* Events accepted beyond the capacity: at most cap + MaxOver events are published.
MaxOver == 2
\* Receivers ever created, the one returned by channel() included.
MaxSubs == 2
\* recv() calls made on the channel, all receivers together.
MaxRecv == 4

\* ------------------------------------------------------- the event taxonomy
None == [some |-> FALSE]
Some(x) == [some |-> TRUE, v |-> x]

\* serde_json::Value, the payload of TelemetryTick.
VNull == [j |-> "Null"]
VBool(b) == [j |-> "Bool", b |-> b]
VNumber(n) == [j |-> "Number", n |-> n]
VString(s) == [j |-> "String", s |-> s]
VArray(a) == [j |-> "Array", a |-> a]
VObject(o) == [j |-> "Object", o |-> o]

ConfigReloaded == [tag |-> "ConfigReloaded"]
MarketStatus(s) == [tag |-> "MarketStatus", f0 |-> s]
AssetTransition(id, state, reason) ==
    [tag |-> "AssetTransition", id |-> id, state |-> state, reason |-> reason]
TelemetryTick(v) == [tag |-> "TelemetryTick", f0 |-> v]

\* The producer's feed: the k-th event offered to the bus.  The channel is generic
\* in its payload and never inspects it, so the feed is one fixed sequence of
\* pairwise distinct events covering every variant (E1, E2, ... of the scenarios).
Feed(k) ==
    CASE k = 1 -> AssetTransition("AAPL", "halted", Some("circuit-breaker"))
      [] k = 2 -> ConfigReloaded
      [] k = 3 -> MarketStatus("open")
      [] k = 4 -> AssetTransition("MSFT", "active", None)
      [] OTHER -> TelemetryTick(VNumber(k))

\* ------------------------------------------------------------------ state
VARIABLES
    cap,        \* number of slots of the ring (capacity rounded up to a power of two)
    buffer,     \* slot index -> [pos, rem, val]
    tail,       \* [pos, rx_cnt, closed, waiters]
    txAlive,    \* the Sender _bus_tx has not been dropped
    rx,         \* receiver id -> [st, next, pc]
    published,  \* history: the events accepted by send, in order
    out,        \* history: receiver id -> the results its recv() calls returned
    subPos,     \* history: receiver id -> tail.pos when it was created
    lastSend,   \* history: the last send call: its result and tail.rx_cnt at the call
    firstRecvAt,\* history: tail.pos at the first recv() call on the channel, -1 before
    recvCalls   \* history: number of recv() calls made on the channel

VARIABLES
    cell,       \* the words of RELOAD_HANDLE's Option<ReloadHandle>: [tag, lo, hi]
    rwWriters,  \* the threads holding the RwLock's write guard
    rwReaders,  \* the threads holding a read guard
    wpc,        \* writer thread -> its position in set_reload_handle
    warg,       \* writer thread -> the handle passed to its current call
    rpc,        \* reader thread -> its position in get
    rbuf,       \* reader thread -> the words it has copied so far
    got,        \* history: reader thread -> what its last get returned
    setCalls,   \* history: number of set_reload_handle calls started
    completed,  \* history: the handles of the calls that have returned
    lastLocked  \* history: the handle of the call that took the write lock last

VARIABLES
    sev,        \* the SysEvent handed to the serializer
    wire,       \* its serialized form
    dev,        \* what the deserializer made of the wire form
    spc         \* position of the round trip

VARIABLES
    pc,         \* main's position: an index into MainSteps, 0 when main is not modelled
    rustLog,    \* the RUST_LOG directive of the environment main was started in
    subscriber, \* the global tracing subscriber has been installed
    logged,     \* the messages of main and the initializers that passed the filter
    inits,      \* subsystem -> the number of times main has invoked its init()
    exit        \* how main ended: "none" while it runs, "Ok", "Err" or "killed"

busVars == <<cap, buffer, tail, txAlive, rx, published, out, subPos, lastSend,
            firstRecvAt, recvCalls>>
cellVars == <<cell, rwWriters, rwReaders, wpc, warg, rpc, rbuf, got, setCalls,
              completed, lastLocked>>
serdeVars == <<sev, wire, dev, spc>>
mainVars == <<pc, rustLog, subscriber, logged, inits, exit>>
vars == <<busVars, cellVars, serdeVars, mainVars>>

Subs == 0 .. MaxSubs - 1

\* Capacities passed to broadcast::channel.  main passes 1024; the channel behaves
\* alike for every capacity, and small ones bring eviction within the bounds.
CapacityInputs == {1, 2, 3, 4}

\* channel() rounds the capacity up to a power of two.

RECURSIVE NextPowerOfTwoFrom(_, _)
NextPowerOfTwoFrom(p, n) == IF p >= n THEN p ELSE NextPowerOfTwoFrom(2 * p, n)
NextPowerOfTwo(n) == NextPowerOfTwoFrom(1, n)

\* pos & mask, mask = cap - 1, for a power of two cap.
Idx(p) == p % cap

\* --------------------------------------------------------- results of calls
Ok(v) == [kind |-> "Ok", val |-> v]
Lagged(n) == [kind |-> "Lagged", n |-> n]
Closed == [kind |-> "Closed"]
Empty == [kind |-> "Empty"]
SendOk(n) == [kind |-> "Ok", n |-> n]
SendError(e) == [kind |-> "Err", val |-> e]
NoSend == [res |-> [kind |-> "NoSend"], rx_cnt |-> 0, ev |-> None]

\* broadcast::channel(capacity): the ring, every slot empty and one lap behind.
ChannelBuffer(n) == [i \in 0 .. n - 1 |-> [pos |-> i - n, rem |-> 0, val |-> None]]

\* The tail of a new channel: nothing written, one receiver, open, nobody waiting.
ChannelTail == [pos |-> 0, rx_cnt |-> 1, closed |-> FALSE, waiters |-> {}]

\* The receivers of a new channel: the one channel() returns (id 0), next = 0.
ChannelRx ==
    [s \in Subs |-> IF s = 0
        THEN [st |-> "live", next |-> 0, pc |-> "idle"]
        ELSE [st |-> "none", next |-> 0, pc |-> "idle"]]

\* broadcast::channel(capacity): one Sender, one Receiver (id 0) with next = 0.
InitBus ==
    /\ \E c \in CapacityInputs : cap = NextPowerOfTwo(c)
    /\ buffer = ChannelBuffer(cap)
    /\ tail = ChannelTail
    /\ txAlive = TRUE
    /\ rx = ChannelRx
    /\ published = <<>>
    /\ out = [s \in Subs |-> <<>>]
    /\ subPos = [s \in Subs |-> 0]
    /\ lastSend = NoSend
    /\ firstRecvAt = -1
    /\ recvCalls = 0

\* Mutant: send never checks for receivers.
SendNeverFails == FALSE

\* send fails only when no receiver handle is alive.
SendFails == tail.rx_cnt = 0

\* Mutant: only the variant tag is stored, the payload is lost.
StoredTagOnly(e) == Some([tag |-> e.tag])

\* slot.val = Some(value)
Stored(e) == Some(e)

\* Mutant: nobody is woken.
NotifyNone(ws) == ws

\* notify_rx: every queued waiter is woken and leaves the queue.
NotifyRx(ws) == {}

\* Mutant: a send wakes nobody.
SendNotifyNone(ws) == ws

\* send ends with notify_rx on the tail it holds.
SendNotify(ws) == NotifyRx(ws)

\* Mutant: every send writes the first slot, whichever entry it holds.
WriteIdxFirst == Idx(0)

\* let idx = (pos & self.shared.mask) as usize: the slot a send writes, which on a
\* full ring is the one holding the oldest entry.
WriteIdx == Idx(tail.pos)

\* Sender::send(value).
Send(e) ==
    /\ txAlive
    /\ e = Feed(Len(published) + 1)
    /\ Len(published) < cap + MaxOver
    /\ IF SendFails
       THEN /\ lastSend' = [res |-> SendError(e), rx_cnt |-> tail.rx_cnt, ev |-> Some(e)]
            /\ UNCHANGED <<cap, buffer, tail, txAlive, rx, published, out, subPos,
                           firstRecvAt, recvCalls>>
       ELSE /\ buffer' = [buffer EXCEPT ![WriteIdx] =
                            [pos |-> tail.pos, rem |-> tail.rx_cnt, val |-> Stored(e)]]
            /\ tail' = [tail EXCEPT !.pos = tail.pos + 1, !.waiters = SendNotify(@)]
            /\ published' = Append(published, e)
            /\ lastSend' = [res |-> SendOk(tail.rx_cnt), rx_cnt |-> tail.rx_cnt,
                            ev |-> Some(e)]
            /\ UNCHANGED <<cap, txAlive, rx, out, subPos, firstRecvAt, recvCalls>>
    /\ UNCHANGED <<cellVars, serdeVars, mainVars>>

\* Mutant: the value is released by the first reader.
TakeSlotReleases(buf, n) ==
    [buf EXCEPT ![Idx(n)] = [pos |-> @.pos, rem |-> @.rem - 1, val |-> None]]

\* RecvGuard: the value is cloned out of the slot (clone_value), and dropping the
\* guard decrements rem; the last reader releases the value.
TakeSlot(buf, n) ==
    [buf EXCEPT ![Idx(n)] =
        [pos |-> @.pos,
         rem |-> @.rem - 1,
         val |-> IF @.rem = 1 THEN None ELSE @.val]]

\* Mutant: the cursor is not advanced.
AdvanceStuck(n) == n

\* Mutant: the cursor moves towards the older entries.
AdvanceBack(n) == n - 1

\* self.next = self.next.wrapping_add(1)
Advance(n) == n + 1

\* Mutant: a lagging receiver is moved one past the oldest retained position.
LagTargetSkipsOne == tail.pos - cap + 1

\* The position a lagging receiver is moved to: tail.pos - buffer.len(), the oldest
\* position still in the ring.
LagTarget == tail.pos - cap

\* Mutant: the count of missed positions is one short.
MissedLess(n) == tail.pos - cap - n - 1

\* Mutant: everything unread is reported as missed.
MissedAll(n) == tail.pos - n

\* The number of positions a lagging receiver at cursor n skips.
Missed(n) == LagTarget - n

\* Mutant: a receiver that has read everything is told Closed at once.
AtTailAlwaysClosed == Closed

\* What a receiver that has read everything is told: Closed once the Sender is
\* gone, and otherwise nothing yet (the call suspends).
AtTail == IF tail.closed THEN Closed ELSE Empty

\* Receiver::recv_ref for receiver s: the result, the new cursor and the new ring.
RecvRef(s) ==
    LET n == rx[s].next
        slot == buffer[Idx(n)]
        taken == [res |-> IF slot.val.some THEN Ok(slot.val.v) ELSE Closed,
                  next |-> Advance(n),
                  buf |-> TakeSlot(buffer, n)]
    IN  IF slot.pos # n
        THEN IF slot.pos + cap = n
             THEN \* the channel is empty for this receiver
                  [res |-> AtTail, next |-> n, buf |-> buffer]
             ELSE \* the receiver lagged behind by more than the capacity
                  IF Missed(n) = 0
                  THEN taken
                  ELSE [res |-> Lagged(Missed(n)), next |-> LagTarget, buf |-> buffer]
        ELSE taken

\* One poll of the Recv future of receiver s: it returns the result of recv_ref, or
\* queues s in tail.waiters and suspends when the channel is empty.
Poll(s) ==
    LET r == RecvRef(s)
    IN  IF r.res = Empty
        THEN /\ rx' = [rx EXCEPT ![s].pc = "waiting"]
             /\ tail' = [tail EXCEPT !.waiters = @ \cup {s}]
             /\ UNCHANGED <<cap, buffer, txAlive, published, out, subPos, lastSend>>
        ELSE /\ rx' = [rx EXCEPT ![s].pc = "idle", ![s].next = r.next]
             /\ buffer' = r.buf
             /\ out' = [out EXCEPT ![s] = Append(@, r.res)]
             /\ UNCHANGED <<cap, tail, txAlive, published, subPos, lastSend>>

\* Receiver::recv(), first poll.
Recv(s) ==
    /\ rx[s].st = "live"
    /\ rx[s].pc = "idle"
    /\ recvCalls < MaxRecv
    /\ Poll(s)
    /\ firstRecvAt' = IF firstRecvAt = -1 THEN tail.pos ELSE firstRecvAt
    /\ recvCalls' = recvCalls + 1
    /\ UNCHANGED <<cellVars, serdeVars, mainVars>>

\* The suspended recv() of s is polled again after notify_rx woke it.
Resume(s) ==
    /\ rx[s].st = "live"
    /\ rx[s].pc = "waiting"
    /\ s \notin tail.waiters
    /\ Poll(s)
    /\ UNCHANGED <<firstRecvAt, recvCalls>>
    /\ UNCHANGED <<cellVars, serdeVars, mainVars>>

\* Mutant: a new receiver starts at the oldest retained position.
SubscribeFromOldest == IF tail.pos > cap THEN tail.pos - cap ELSE 0

\* new_receiver: the cursor of a new receiver is the tail position.
SubscribeCursor == tail.pos

\* Sender::subscribe().
Subscribe(s) ==
    /\ txAlive
    /\ rx[s].st = "none"
    /\ \A t \in Subs : t < s => rx[t].st # "none"
    /\ tail' = [tail EXCEPT !.rx_cnt = @ + 1]
    /\ rx' = [rx EXCEPT ![s] = [st |-> "live", next |-> SubscribeCursor, pc |-> "idle"]]
    /\ subPos' = [subPos EXCEPT ![s] = tail.pos]
    /\ UNCHANGED <<cap, buffer, txAlive, published, out, lastSend, firstRecvAt,
                   recvCalls>>
    /\ UNCHANGED <<cellVars, serdeVars, mainVars>>

\* Drop for Receiver: the unread slots up to the tail are released (recv_ref in a
\* loop, skipping over a lag).  The handle is gone afterwards, and its history
\* with it (the histories describe the receivers that exist).
RECURSIVE Drain(_, _, _)
Drain(buf, n, until) ==
    IF n >= until
    THEN buf
    ELSE IF buf[Idx(n)].pos = n
         THEN Drain(TakeSlot(buf, n), n + 1, until)
         ELSE IF buf[Idx(n)].pos + cap = n
              THEN buf
              ELSE IF Missed(n) = 0
                   THEN Drain(TakeSlot(buf, n), n + 1, until)
                   ELSE Drain(buf, LagTarget, until)

DropReceiverOp(s) ==
    /\ rx[s].st = "live"
    /\ tail' = [tail EXCEPT !.rx_cnt = @ - 1, !.waiters = @ \ {s}]
    /\ buffer' = Drain(buffer, rx[s].next, tail.pos)
    /\ rx' = [rx EXCEPT ![s] = [st |-> "dropped", next |-> 0, pc |-> "idle"]]
    /\ out' = [out EXCEPT ![s] = <<>>]
    /\ subPos' = [subPos EXCEPT ![s] = 0]
    /\ UNCHANGED <<cap, txAlive, published, lastSend, firstRecvAt, recvCalls>>

DropReceiver(s) ==
    /\ DropReceiverOp(s)
    /\ UNCHANGED <<cellVars, serdeVars, mainVars>>

\* Drop for Sender (the only one, _bus_tx): the channel is closed and every
\* suspended receiver is woken.
DropSenderOp ==
    /\ txAlive
    /\ txAlive' = FALSE
    /\ tail' = [tail EXCEPT !.closed = TRUE, !.waiters = NotifyRx(@)]
    /\ UNCHANGED <<cap, buffer, rx, published, out, subPos, lastSend, firstRecvAt,
                   recvCalls>>

DropSender ==
    /\ DropSenderOp
    /\ UNCHANGED <<cellVars, serdeVars, mainVars>>

\* ------------------------------------------------------ the startup sequence
\* finstream/src/main.rs.  main is one task; its statements run in program order.
\* The environment chooses RUST_LOG, may deliver SIGINT at any time, and may make
\* the registration of the Ctrl+C listener fail.

\* The capacity main passes to broadcast::channel.
MainCapacity == 1024

\* The subsystems, in the order main calls their init().
InitOrder ==
    <<"logger", "confman", "db", "servman", "climan", "assman", "telemetry",
      "marketstatus", "primon", "sysbus">>

Subsystems == {InitOrder[i] : i \in DOMAIN InitOrder}

\* Mutant: the subsystems are initialized before the channel is constructed.
MainStepsBusLast ==
    <<"tracing_init", "info_starting", "bootstrap">> \o InitOrder
    \o <<"channel", "bus_tx", "info_running", "ctrl_c", "await", "info_shutdown",
         "drop_bus_tx", "drop_rx", "return">>

\* The statements of main, in program order; the last three are the end of main's
\* scope, where the locals are dropped in reverse order of declaration.
MainSteps ==
    <<"tracing_init", "info_starting", "channel", "bus_tx", "bootstrap">> \o InitOrder
    \o <<"info_running", "ctrl_c", "await", "info_shutdown",
         "drop_bus_tx", "drop_rx", "return">>

StepOf(name) == CHOOSE i \in DOMAIN MainSteps : MainSteps[i] = name

\* main is about to execute the statement `name`.
At(name) == exit # "killed" /\ pc \in DOMAIN MainSteps /\ MainSteps[pc] = name

\* RUST_LOG as EnvFilter::from_default_env() reads it; unset means the default
\* directive, ERROR.
RustLogInputs == {"unset", "off", "error", "warn", "info", "debug", "trace"}

InfoEnabled == subscriber /\ rustLog \in {"info", "debug", "trace"}

\* tracing::info!(msg)
Info(msg) == IF InfoEnabled THEN Append(logged, msg) ELSE logged

\* No channel has been constructed.
NoBus ==
    /\ cap = 0
    /\ buffer = ChannelBuffer(0)
    /\ tail = [pos |-> 0, rx_cnt |-> 0, closed |-> FALSE, waiters |-> {}]
    /\ txAlive = FALSE
    /\ rx = [s \in Subs |-> [st |-> "none", next |-> 0, pc |-> "idle"]]
    /\ published = <<>>
    /\ out = [s \in Subs |-> <<>>]
    /\ subPos = [s \in Subs |-> 0]
    /\ lastSend = NoSend
    /\ firstRecvAt = -1
    /\ recvCalls = 0

\* The process has just entered main.
InitMain ==
    /\ pc = 1
    /\ rustLog \in RustLogInputs
    /\ subscriber = FALSE
    /\ logged = <<>>
    /\ inits = [x \in Subsystems |-> 0]
    /\ exit = "none"

\* main is not part of the behaviour.
MainOff ==
    /\ pc = 0
    /\ rustLog = "unset"
    /\ subscriber = FALSE
    /\ logged = <<>>
    /\ inits = [x \in Subsystems |-> 0]
    /\ exit = "none"

\* tracing_subscriber::fmt().with_env_filter(..).json().init()
TracingInit ==
    /\ At("tracing_init")
    /\ subscriber' = TRUE
    /\ pc' = pc + 1
    /\ UNCHANGED <<rustLog, logged, inits, exit>>
    /\ UNCHANGED <<busVars, cellVars, serdeVars>>

InfoSteps == {"info_starting", "info_running", "info_shutdown"}

InfoMessage(step) ==
    CASE step = "info_starting" -> "FinStream Engine Core Starting..."
      [] step = "info_running" -> "FinStream running. Press Ctrl+C to exit."
      [] step = "info_shutdown" -> "Shutting down FinStream..."

\* The tracing::info! statements of main.
MainInfo(step) ==
    /\ At(step)
    /\ logged' = Info(InfoMessage(step))
    /\ pc' = pc + 1
    /\ UNCHANGED <<rustLog, subscriber, inits, exit>>
    /\ UNCHANGED <<busVars, cellVars, serdeVars>>

\* let (tx, _rx) = broadcast::channel::<SysEvent>(1024)
Channel ==
    /\ At("channel")
    /\ cap' = NextPowerOfTwo(MainCapacity)
    /\ buffer' = ChannelBuffer(cap')
    /\ tail' = ChannelTail
    /\ txAlive' = TRUE
    /\ rx' = ChannelRx
    /\ pc' = pc + 1
    /\ UNCHANGED <<published, out, subPos, lastSend, firstRecvAt, recvCalls>>
    /\ UNCHANGED <<rustLog, subscriber, logged, inits, exit>>
    /\ UNCHANGED <<cellVars, serdeVars>>

\* let _bus_tx = tx: the Sender is moved, the channel is not touched.
MoveTx ==
    /\ At("bus_tx")
    /\ pc' = pc + 1
    /\ UNCHANGED <<rustLog, subscriber, logged, inits, exit>>
    /\ UNCHANGED <<busVars, cellVars, serdeVars>>

\* bootstrap()
Bootstrap ==
    /\ At("bootstrap")
    /\ logged' = Info("FinStream bootstrap sequence started")
    /\ pc' = pc + 1
    /\ UNCHANGED <<rustLog, subscriber, inits, exit>>
    /\ UNCHANGED <<busVars, cellVars, serdeVars>>

\* logger::init() .. primon::init(): the calls take no argument, and neither tx,
\* _rx nor _bus_tx leaves main, so a callee has no handle of the channel.
SubsystemInit(x) ==
    /\ x # "sysbus"
    /\ At(x)
    /\ inits' = [inits EXCEPT ![x] = @ + 1]
    /\ pc' = pc + 1
    /\ UNCHANGED <<rustLog, subscriber, logged, exit>>
    /\ UNCHANGED <<busVars, cellVars, serdeVars>>

\* sysbus::init()
SysbusInit ==
    /\ At("sysbus")
    /\ inits' = [inits EXCEPT !["sysbus"] = @ + 1]
    /\ logged' = Info("[sysbus] module initialized")
    /\ pc' = pc + 1
    /\ UNCHANGED <<rustLog, subscriber, exit>>
    /\ UNCHANGED <<busVars, cellVars, serdeVars>>

\* tokio::signal::ctrl_c(): the SIGINT listener is registered.
CtrlCRegister ==
    /\ At("ctrl_c")
    /\ pc' = pc + 1
    /\ UNCHANGED <<rustLog, subscriber, logged, inits, exit>>
    /\ UNCHANGED <<busVars, cellVars, serdeVars>>

\* tokio::signal::ctrl_c() fails and `?` returns the error: main's scope ends.
CtrlCFails ==
    /\ At("ctrl_c")
    /\ exit' = "Err"
    /\ pc' = StepOf("drop_bus_tx")
    /\ UNCHANGED <<rustLog, subscriber, logged, inits>>
    /\ UNCHANGED <<busVars, cellVars, serdeVars>>

\* .await: SIGINT arrives and the future resolves.
CtrlCResolves ==
    /\ At("await")
    /\ pc' = pc + 1
    /\ UNCHANGED <<rustLog, subscriber, logged, inits, exit>>
    /\ UNCHANGED <<busVars, cellVars, serdeVars>>

\* SIGINT before the listener is registered: the default disposition ends the
\* process where it stands, and no destructor runs.
SigintKills ==
    /\ exit = "none"
    /\ pc \in DOMAIN MainSteps
    /\ pc <= StepOf("ctrl_c")
    /\ exit' = "killed"
    /\ UNCHANGED <<pc, rustLog, subscriber, logged, inits>>
    /\ UNCHANGED <<busVars, cellVars, serdeVars>>

\* End of main's scope: _bus_tx is dropped first.
MainDropSender ==
    /\ At("drop_bus_tx")
    /\ DropSenderOp
    /\ pc' = pc + 1
    /\ UNCHANGED <<rustLog, subscriber, logged, inits, exit>>
    /\ UNCHANGED <<cellVars, serdeVars>>

\* End of main's scope: then _rx.
MainDropReceiver ==
    /\ At("drop_rx")
    /\ DropReceiverOp(0)
    /\ pc' = pc + 1
    /\ UNCHANGED <<rustLog, subscriber, logged, inits, exit>>
    /\ UNCHANGED <<cellVars, serdeVars>>

\* main returns Ok(()) or the error of ctrl_c().
Return ==
    /\ At("return")
    /\ exit' = IF exit = "Err" THEN "Err" ELSE "Ok"
    /\ pc' = pc + 1
    /\ UNCHANGED <<rustLog, subscriber, logged, inits>>
    /\ UNCHANGED <<busVars, cellVars, serdeVars>>


\* ------------------------------------------------- the reconfiguration cell
\* logger/src/reload.rs.  RELOAD_HANDLE is an RwLock around an Option<ReloadHandle>.
\* The Option occupies several words of memory (tag, lo, hi here); a store or a
\* copy of it touches them one after the other, and only the lock makes the
\* sequence atomic.  The k-th call of set_reload_handle passes handle k, so a
\* value read back names the call that wrote it.
\* Threads calling set_reload_handle, threads calling get, and calls of
\* set_reload_handle made in all.
MaxWriters == 2
MaxReaders == 2
MaxSets == 3

Writers == 1 .. MaxWriters
Readers == 1 .. MaxReaders

NoneCell == [tag |-> "None", lo |-> 0, hi |-> 0]
SomeCell(h) == [tag |-> "Some", lo |-> h, hi |-> h]
NotYet == [tag |-> "NotYet", lo |-> 0, hi |-> 0]

\* lazy_static: RwLock::new(None).
InitCell ==
    /\ cell = NoneCell
    /\ rwWriters = {}
    /\ rwReaders = {}
    /\ wpc = [w \in Writers |-> "idle"]
    /\ warg = [w \in Writers |-> 0]
    /\ rpc = [r \in Readers |-> "idle"]
    /\ rbuf = [r \in Readers |-> NoneCell]
    /\ got = [r \in Readers |-> [val |-> NotYet, done |-> 0]]
    /\ setCalls = 0
    /\ completed = {}
    /\ lastLocked = 0

\* Mutant: the write lock does not wait for the readers.
WriteLockIgnoresReaders == rwWriters = {}

\* RwLock::write() is granted when no guard of either kind is out.
WriteLockFree == rwWriters = {} /\ rwReaders = {}

\* RwLock::read() is granted when no write guard is out.
ReadLockFree == rwWriters = {}

\* Mutant: the larger of the old and the new handle is kept.
AssignedMerged(h) == IF cell.lo > h THEN SomeCell(cell.lo) ELSE SomeCell(h)

\* Mutant: the cell is cleared.
AssignedNone(h) == NoneCell

\* The right-hand side of `*guard = Some(handle)`.
Assigned(h) == SomeCell(h)

\* set_reload_handle(handle) is called by thread w.
SetCall(w) ==
    /\ wpc[w] = "idle"
    /\ setCalls < MaxSets
    /\ setCalls' = setCalls + 1
    /\ warg' = [warg EXCEPT ![w] = setCalls + 1]
    /\ wpc' = [wpc EXCEPT ![w] = "want"]
    /\ UNCHANGED <<cell, rwWriters, rwReaders, rpc, rbuf, got, completed, lastLocked>>
    /\ UNCHANGED <<busVars, serdeVars, mainVars>>

\* RELOAD_HANDLE.write()
SetLock(w) ==
    /\ wpc[w] = "want"
    /\ WriteLockFree
    /\ rwWriters' = rwWriters \cup {w}
    /\ lastLocked' = warg[w]
    /\ wpc' = [wpc EXCEPT ![w] = "locked"]
    /\ UNCHANGED <<cell, rwReaders, warg, rpc, rbuf, got, setCalls, completed>>
    /\ UNCHANGED <<busVars, serdeVars, mainVars>>

\* *guard = Some(handle), first words
SetStoreLo(w) ==
    /\ wpc[w] = "locked"
    /\ cell' = [cell EXCEPT !.tag = Assigned(warg[w]).tag, !.lo = Assigned(warg[w]).lo]
    /\ wpc' = [wpc EXCEPT ![w] = "half"]
    /\ UNCHANGED <<rwWriters, rwReaders, warg, rpc, rbuf, got, setCalls, completed,
                   lastLocked>>
    /\ UNCHANGED <<busVars, serdeVars, mainVars>>

\* *guard = Some(handle), last word
SetStoreHi(w) ==
    /\ wpc[w] = "half"
    /\ cell' = [cell EXCEPT !.hi = Assigned(warg[w]).hi]
    /\ wpc' = [wpc EXCEPT ![w] = "stored"]
    /\ UNCHANGED <<rwWriters, rwReaders, warg, rpc, rbuf, got, setCalls, completed,
                   lastLocked>>
    /\ UNCHANGED <<busVars, serdeVars, mainVars>>

\* the write guard is dropped at the end of the statement and the call returns
SetUnlock(w) ==
    /\ wpc[w] = "stored"
    /\ rwWriters' = rwWriters \ {w}
    /\ completed' = completed \cup {warg[w]}
    /\ wpc' = [wpc EXCEPT ![w] = "idle"]
    /\ UNCHANGED <<cell, rwReaders, warg, rpc, rbuf, got, setCalls, lastLocked>>
    /\ UNCHANGED <<busVars, serdeVars, mainVars>>

\* get(): RELOAD_HANDLE.read()
GetLock(r) ==
    /\ rpc[r] = "idle"
    /\ ReadLockFree
    /\ rwReaders' = rwReaders \cup {r}
    /\ rpc' = [rpc EXCEPT ![r] = "locked"]
    /\ got' = [got EXCEPT ![r] = [val |-> NotYet, done |-> Cardinality(completed)]]
    /\ UNCHANGED <<cell, rwWriters, wpc, warg, rbuf, setCalls, completed, lastLocked>>
    /\ UNCHANGED <<busVars, serdeVars, mainVars>>

\* get(): the clone of the Option, first words
GetCopyLo(r) ==
    /\ rpc[r] = "locked"
    /\ rbuf' = [rbuf EXCEPT ![r] = [tag |-> cell.tag, lo |-> cell.lo, hi |-> 0]]
    /\ rpc' = [rpc EXCEPT ![r] = "half"]
    /\ UNCHANGED <<cell, rwWriters, rwReaders, wpc, warg, got, setCalls, completed,
                   lastLocked>>
    /\ UNCHANGED <<busVars, serdeVars, mainVars>>

\* get(): the clone of the Option, last word
GetCopyHi(r) ==
    /\ rpc[r] = "half"
    /\ rbuf' = [rbuf EXCEPT ![r].hi = cell.hi]
    /\ rpc' = [rpc EXCEPT ![r] = "copied"]
    /\ UNCHANGED <<cell, rwWriters, rwReaders, wpc, warg, got, setCalls, completed,
                   lastLocked>>
    /\ UNCHANGED <<busVars, serdeVars, mainVars>>

\* get(): the read guard is dropped and the copy is returned
GetUnlock(r) ==
    /\ rpc[r] = "copied"
    /\ rwReaders' = rwReaders \ {r}
    /\ got' = [got EXCEPT ![r].val = rbuf[r]]
    /\ rbuf' = [rbuf EXCEPT ![r] = NoneCell]
    /\ rpc' = [rpc EXCEPT ![r] = "idle"]
    /\ UNCHANGED <<cell, rwWriters, wpc, warg, setCalls, completed, lastLocked>>
    /\ UNCHANGED <<busVars, serdeVars, mainVars>>

\* ------------------------------------------- SysEvent on the wire (sysbus)
\* #[derive(Serialize, Deserialize)] #[serde(tag = "type", content = "payload")]:
\* the adjacently tagged representation.  Wire values are JSON trees.
JNull == [k |-> "null"]
JBool(b) == [k |-> "bool", b |-> b]
JNum(n) == [k |-> "num", n |-> n]
JStr(s) == [k |-> "str", s |-> s]
JArr(a) == [k |-> "arr", a |-> a]
JObj(o) == [k |-> "obj", o |-> o]

RECURSIVE ValueToJson(_)
ValueToJson(v) ==
    CASE v.j = "Null" -> JNull
      [] v.j = "Bool" -> JBool(v.b)
      [] v.j = "Number" -> JNum(v.n)
      [] v.j = "String" -> JStr(v.s)
      [] v.j = "Array" -> JArr([i \in 1 .. Len(v.a) |-> ValueToJson(v.a[i])])
      [] v.j = "Object" -> JObj([f \in DOMAIN v.o |-> ValueToJson(v.o[f])])

RECURSIVE JsonToValue(_)
JsonToValue(x) ==
    CASE x.k = "null" -> VNull
      [] x.k = "bool" -> VBool(x.b)
      [] x.k = "num" -> VNumber(x.n)
      [] x.k = "str" -> VString(x.s)
      [] x.k = "arr" -> VArray([i \in 1 .. Len(x.a) |-> JsonToValue(x.a[i])])
      [] x.k = "obj" -> VObject([f \in DOMAIN x.o |-> JsonToValue(x.o[f])])

\* Mutant: None is written as the empty string.
OptionToJsonEmpty(r) == IF r.some THEN JStr(r.v) ELSE JStr("")

\* Option<String> as a field: null or the string.
OptionToJson(r) == IF r.some THEN JStr(r.v) ELSE JNull

\* Serialize for SysEvent: {"type": <variant>} for the unit variant, and
\* {"type": <variant>, "payload": <content>} for the others.
Serialize(e) ==
    CASE e.tag = "ConfigReloaded" ->
            JObj([type |-> JStr("ConfigReloaded")])
      [] e.tag = "MarketStatus" ->
            JObj([type |-> JStr("MarketStatus"), payload |-> JStr(e.f0)])
      [] e.tag = "AssetTransition" ->
            JObj([type |-> JStr("AssetTransition"),
                  payload |-> JObj([id |-> JStr(e.id),
                                    state |-> JStr(e.state),
                                    reason |-> OptionToJson(e.reason)])])
      [] e.tag = "TelemetryTick" ->
            JObj([type |-> JStr("TelemetryTick"), payload |-> ValueToJson(e.f0)])

Malformed(what) == [tag |-> "MalformedEvent", what |-> what]

IsStr(o, f) == f \in DOMAIN o /\ o[f].k = "str"

\* Deserialize for the content of AssetTransition: id and state are required
\* strings, reason is an Option (absent or null is None).
DeserializeTransition(p) ==
    IF p.k # "obj"
    THEN Malformed("payload")
    ELSE IF ~IsStr(p.o, "id")
         THEN Malformed("id")
         ELSE IF ~IsStr(p.o, "state")
              THEN Malformed("state")
              ELSE IF "reason" \notin DOMAIN p.o \/ p.o["reason"] = JNull
                   THEN AssetTransition(p.o["id"].s, p.o["state"].s, None)
                   ELSE IF p.o["reason"].k = "str"
                        THEN AssetTransition(p.o["id"].s, p.o["state"].s,
                                             Some(p.o["reason"].s))
                        ELSE Malformed("reason")

\* Deserialize for SysEvent.
Deserialize(x) ==
    IF x.k # "obj" \/ ~IsStr(x.o, "type")
    THEN Malformed("type")
    ELSE LET t == x.o["type"].s
             hasPayload == "payload" \in DOMAIN x.o
         IN  CASE t = "ConfigReloaded" ->
                    IF ~hasPayload \/ x.o["payload"] = JNull
                    THEN ConfigReloaded
                    ELSE Malformed("payload")
               [] t = "MarketStatus" ->
                    IF IsStr(x.o, "payload")
                    THEN MarketStatus(x.o["payload"].s)
                    ELSE Malformed("payload")
               [] t = "AssetTransition" ->
                    IF hasPayload
                    THEN DeserializeTransition(x.o["payload"])
                    ELSE Malformed("payload")
               [] t = "TelemetryTick" ->
                    IF hasPayload
                    THEN TelemetryTick(JsonToValue(x.o["payload"]))
                    ELSE Malformed("payload")
               [] OTHER -> Malformed(t)

\* The events of the round trip.
Labels == {"", "open", "closed", "pre-market"}
AssetIds == {"", "AAPL", "MSFT"}
AssetStates == {"", "halted", "active"}
Reasons == {None, Some(""), Some("circuit-breaker")}
Ticks ==
    { VNull, VBool(TRUE), VBool(FALSE), VNumber(0), VNumber(42), VString(""),
      VString("ConfigReloaded"), VArray(<<>>), VArray(<<VNumber(1), VNull>>),
      VObject([cpu |-> VNumber(7)]),
      VObject([type |-> VString("MarketStatus"), payload |-> VNull]) }

SerdeEvents ==
    {ConfigReloaded}
    \cup {MarketStatus(s) : s \in Labels}
    \cup {AssetTransition(i, s, r) : i \in AssetIds, s \in AssetStates, r \in Reasons}
    \cup {TelemetryTick(v) : v \in Ticks}

NoWire == [k |-> "none"]
NoEvent == [tag |-> "NoEvent"]

InitSerde ==
    /\ sev \in SerdeEvents
    /\ wire = NoWire
    /\ dev = NoEvent
    /\ spc = "event"

\* No round trip is in progress.
SerdeOff ==
    /\ sev = NoEvent
    /\ wire = NoWire
    /\ dev = NoEvent
    /\ spc = "off"

DoSerialize ==
    /\ spc = "event"
    /\ wire' = Serialize(sev)
    /\ spc' = "wire"
    /\ UNCHANGED <<sev, dev>>
    /\ UNCHANGED <<busVars, cellVars, mainVars>>

DoDeserialize ==
    /\ spc = "wire"
    /\ dev' = Deserialize(wire)
    /\ spc' = "done"
    /\ UNCHANGED <<sev, wire>>
    /\ UNCHANGED <<busVars, cellVars, mainVars>>

\* ---------------------------------------------------------- specifications
\* The bus as main constructs it, with no cell access and no round trip going on.
Init == InitBus /\ InitCell /\ SerdeOff /\ MainOff

Next ==
    \/ \E e \in {Feed(Len(published) + 1)} : Send(e)
    \/ \E s \in Subs : Subscribe(s)
    \/ \E s \in Subs : Recv(s)
    \/ \E s \in Subs : Resume(s)
    \/ \E s \in Subs : DropReceiver(s)
    \/ DropSender

Spec == Init /\ [][Next]_vars

\* The runtime polls a woken task again: a receiver that was woken is resumed.
FairSpec == Spec /\ \A s \in Subs : WF_vars(Resume(s))

\* The cell under concurrent set_reload_handle and get calls, on an idle bus.
CellInit == InitBus /\ cap = 1 /\ InitCell /\ SerdeOff /\ MainOff

CellNext ==
    \/ \E w \in Writers : SetCall(w)
    \/ \E w \in Writers : SetLock(w)
    \/ \E w \in Writers : SetStoreLo(w)
    \/ \E w \in Writers : SetStoreHi(w)
    \/ \E w \in Writers : SetUnlock(w)
    \/ \E r \in Readers : GetLock(r)
    \/ \E r \in Readers : GetCopyLo(r)
    \/ \E r \in Readers : GetCopyHi(r)
    \/ \E r \in Readers : GetUnlock(r)

CellSpec == CellInit /\ [][CellNext]_vars

\* One round trip of one event through Serialize and Deserialize.
SerdeInit == InitBus /\ cap = 1 /\ InitCell /\ InitSerde /\ MainOff

SerdeNext == DoSerialize \/ DoDeserialize

SerdeSpec == SerdeInit /\ [][SerdeNext]_vars

\* The process from the entry of main to its end.
StartupInit == NoBus /\ InitCell /\ SerdeOff /\ InitMain

StartupNext ==
    \/ TracingInit
    \/ \E step \in InfoSteps : MainInfo(step)
    \/ Channel
    \/ MoveTx
    \/ Bootstrap
    \/ \E x \in Subsystems : SubsystemInit(x)
    \/ SysbusInit
    \/ CtrlCRegister
    \/ CtrlCFails
    \/ CtrlCResolves
    \/ SigintKills
    \/ MainDropSender
    \/ MainDropReceiver
    \/ Return

StartupSpec == StartupInit /\ [][StartupNext]_vars

\* ------------------------------------------------------------- properties
IsOk(r) == r.kind = "Ok"
OkVals(q) == LET ok == SelectSeq(q, IsOk) IN [i \in 1 .. Len(ok) |-> ok[i].val]
NoLag(q) == \A i \in 1 .. Len(q) : q[i].kind # "Lagged"
Last(q) == q[Len(q)]
Live(s) == rx[s].st = "live"

\* The number of positions the first i results of q moved the cursor by.
RECURSIVE Consumed(_, _)
Consumed(q, i) ==
    IF i = 0
    THEN 0
    ELSE Consumed(q, i - 1)
         + (CASE q[i].kind = "Ok" -> 1
              [] q[i].kind = "Lagged" -> q[i].n
              [] OTHER -> 0)

\* The position of the event the i-th result of s is about.
PosAt(s, i) == subPos[s] + Consumed(out[s], i - 1)

\* s is suspended in recv() and has not been woken.
Suspended(s) == Live(s) /\ rx[s].pc = "waiting" /\ s \in tail.waiters

\* The oldest position the ring still holds, read off the slots.
OldestRetained ==
    CHOOSE p \in {buffer[i].pos : i \in DOMAIN buffer} :
        \A i \in DOMAIN buffer : p <= buffer[i].pos

\* The cursor of s is behind the oldest retained entry.
Behind(s) == rx[s].next < OldestRetained

\* This step completes a recv() call of s.
RecvStep(s) == Live(s) /\ Len(out'[s]) = Len(out[s]) + 1

\* C1: a receiver created before the first publish that has never been told it
\* lagged has received, in its successive recv() calls, exactly the published
\* sequence in publish order: a prefix of it while events are still unread, and
\* the whole of it once it is suspended on an empty channel or was told Closed.
C1_InOrderNoDupNoLoss ==
    \A s \in Subs :
        (Live(s) /\ subPos[s] = 0 /\ NoLag(out[s])) =>
            LET vals == OkVals(out[s])
            IN  /\ Len(vals) <= Len(published)
                /\ vals = SubSeq(published, 1, Len(vals))
                /\ rx[s].next = Len(vals)
                /\ (Suspended(s) \/ (\E i \in 1 .. Len(out[s]) : out[s][i] = Closed))
                        => vals = published

C1_Witness ==
    \E s \in Subs :
        /\ Live(s) /\ subPos[s] = 0 /\ NoLag(out[s])
        /\ Len(published) >= 3
        /\ OkVals(out[s]) = published

\* C2 as stated: capacity 4, E1..E6 published before any recv() call, then three
\* recv() calls on the receiver that was there from the start give Lagged(2), E5, E6.
C2_Original ==
    (cap = 4 /\ Live(0) /\ firstRecvAt = 6 /\ Len(published) = 6 /\ Len(out[0]) = 3)
        => out[0] = <<Lagged(2), Ok(Feed(5)), Ok(Feed(6))>>

\* C2 amended: in that scenario the three calls give Lagged(2), then E3, then E4:
\* E1 and E2 are evicted and delivery resumes at the oldest retained event.
C2_LaggedThenOldest ==
    (cap = 4 /\ Live(0) /\ firstRecvAt = 6 /\ Len(published) = 6 /\ Len(out[0]) = 3)
        => out[0] = <<Lagged(2), Ok(Feed(3)), Ok(Feed(4))>>

C2_Witness ==
    cap = 4 /\ Live(0) /\ firstRecvAt = 6 /\ Len(published) = 6 /\ Len(out[0]) = 3

\* C3 as stated: the first recv() of a receiver created after N events had been
\* evicted (N = its creation position - capacity > 0) returns Lagged(N).
C3_Original ==
    \A s \in Subs :
        (Live(s) /\ subPos[s] - cap > 0 /\ Len(out[s]) >= 1)
            => out[s][1] = Lagged(subPos[s] - cap)

\* The number of events published after s was created that are no longer retained.
EvictedUnread(s) == OldestRetained - subPos[s]

\* C3 amended: the first recv() of a receiver never counts events evicted before
\* it was created.  It returns Lagged(k) exactly when k > 0 events published after
\* its creation have been evicted before it read, k being that number; otherwise
\* it returns the first event published after its creation (or Closed).
C3_FirstRecvCountsOnlyOwnLoss ==
    [][\A s \in Subs :
        (RecvStep(s) /\ out[s] = <<>>) =>
            IF EvictedUnread(s) > 0
            THEN out'[s][1] = Lagged(EvictedUnread(s))
            ELSE \/ out'[s][1] = Closed
                 \/ /\ subPos[s] < Len(published)
                    /\ out'[s][1] = Ok(published[subPos[s] + 1])]_vars

C3_Witness ==
    \E s \in Subs :
        /\ Live(s) /\ subPos[s] - cap > 0
        /\ Len(out[s]) >= 1 /\ out[s][1].kind = "Ok"

\* C4: a recv() on a receiver whose cursor is behind the oldest retained entry
\* returns Lagged(n), n the number of positions between the cursor and that entry,
\* leaves the receiver live with its cursor on that entry, so that the lag is
\* reported once; Lagged is returned in no other case; and the recv() that follows
\* a Lagged, when nothing more was evicted in between, returns the oldest retained
\* event.
C4_LaggedOnceThenOldest ==
    [][\A s \in Subs :
        RecvStep(s) =>
            /\ Behind(s) =>
                /\ Last(out'[s]) = Lagged(OldestRetained - rx[s].next)
                /\ rx'[s].next = OldestRetained
                /\ Live(s)'
                /\ ~Behind(s)'
            /\ ~Behind(s) => Last(out'[s]).kind # "Lagged"
            /\ (out[s] # <<>> /\ Last(out[s]).kind = "Lagged" /\ ~Behind(s)) =>
                /\ rx[s].next = OldestRetained
                /\ Last(out'[s]) = Ok(published[OldestRetained + 1])
                /\ buffer[Idx(OldestRetained)].val = Some(published[OldestRetained + 1])
      ]_vars

C4_Witness ==
    \E s \in Subs : \E i \in 1 .. Len(out[s]) - 1 :
        Live(s) /\ out[s][i].kind = "Lagged" /\ out[s][i + 1].kind = "Ok"

\* C5 as stated: a send made while no receiver exists returns Ok.
C5_Original ==
    (lastSend.ev.some /\ lastSend.rx_cnt = 0) => lastSend.res.kind = "Ok"

\* The positions the ring retains.
Retained == {p \in 0 .. tail.pos - 1 : p >= tail.pos - cap}

\* C5 amended: send returns Ok(n), n the number of live receiver handles, exactly
\* when n >= 1, whether or not any of them reads; with no receiver handle alive it
\* returns an error that hands the event back, and nothing is stored.  An accepted
\* event stays in the ring until capacity evicts it, with its value for as long as
\* a receiver counted at the send has still to read it.
C5_SendNeedsAReceiver ==
    /\ lastSend.res.kind = "Ok" =>
            lastSend.rx_cnt >= 1 /\ lastSend.res.n = lastSend.rx_cnt
    /\ lastSend.res.kind = "Err" =>
            lastSend.rx_cnt = 0 /\ lastSend.res.val = lastSend.ev.v
    /\ tail.pos = Len(published)
    /\ \A p \in Retained :
        /\ buffer[Idx(p)].pos = p
        /\ IF buffer[Idx(p)].rem > 0
           THEN buffer[Idx(p)].val = Some(published[p + 1])
           ELSE buffer[Idx(p)].val = None
        /\ \A s \in Subs :
            (Live(s) /\ rx[s].next <= p) =>
                buffer[Idx(p)].val = Some(published[p + 1])

C5_Witness ==
    /\ lastSend.res.kind = "Err"
    /\ tail.rx_cnt = 0
    /\ Len(published) >= 1

\* C6: when the sender is dropped while a receiver is suspended in recv() with
\* nothing left to read, that call completes, and what it returns is Closed.
C6_SuspendedRecvResolvesClosed ==
    /\ \A s \in Subs :
        (Live(s) /\ rx[s].pc = "waiting" /\ tail.closed /\ rx[s].next = tail.pos)
            ~> (~Live(s) \/ (rx[s].pc = "idle" /\ out[s] # <<>> /\ Last(out[s]) = Closed))
    /\ [][\A s \in Subs :
            (RecvStep(s) /\ rx[s].pc = "waiting" /\ tail.closed
                /\ rx[s].next = tail.pos)
                => Last(out'[s]) = Closed]_vars

C6_Witness ==
    \E s \in Subs :
        /\ Live(s) /\ rx[s].pc = "waiting" /\ rx[s].next = tail.pos
        /\ tail.closed /\ tail.rx_cnt = 1

\* C7: what a get returns is either None, and then no set_reload_handle call had
\* returned when the get took its read lock, or Some(h) whole for the handle h of
\* one call that has returned; never a mixture of words.
C7_GetSeesWholeValues ==
    \A r \in Readers :
        got[r].val # NotYet =>
            \/ got[r].val = NoneCell /\ got[r].done = 0
            \/ \E h \in completed : got[r].val = SomeCell(h)

C7_Witness ==
    \E r1, r2 \in Readers : \E w \in Writers :
        /\ r1 # r2
        /\ rpc[r1] = "half"
        /\ wpc[w] = "want"
        /\ got[r2].val = SomeCell(1)
        /\ completed = {1}

\* C8: every event a receiver is given equals the event published at that
\* position, tag and payload; a receiver that never lagged has been given every
\* event published since its creation up to its cursor, none left out; and one
\* that is suspended has been given all of them.
C8_ExactFanOut ==
    \A s \in Subs :
        Live(s) =>
            /\ \A i \in 1 .. Len(out[s]) :
                IsOk(out[s][i]) =>
                    /\ PosAt(s, i) < Len(published)
                    /\ out[s][i].val = published[PosAt(s, i) + 1]
            /\ NoLag(out[s]) =>
                /\ rx[s].next = subPos[s] + Len(OkVals(out[s]))
                /\ rx[s].next <= Len(published)
                /\ OkVals(out[s]) = SubSeq(published, subPos[s] + 1, rx[s].next)
            /\ (NoLag(out[s]) /\ Suspended(s)) => rx[s].next = Len(published)

C8_Witness ==
    \E s, t \in Subs :
        /\ s # t /\ Live(s) /\ Live(t)
        /\ out[s] = <<Ok(AssetTransition("AAPL", "halted", Some("circuit-breaker")))>>
        /\ out[t] = <<Ok(AssetTransition("AAPL", "halted", Some("circuit-breaker")))>>

\* C9: Deserialize(Serialize(e)) = e for every event of the round trip, and the
\* wire form is an object whose "type" is the variant name and which has a
\* "payload" exactly when the variant carries data.
C9_RoundTrip ==
    /\ spc \in {"wire", "done"} =>
        /\ wire.k = "obj"
        /\ DOMAIN wire.o \subseteq {"type", "payload"}
        /\ wire.o["type"] = JStr(sev.tag)
        /\ ("payload" \in DOMAIN wire.o) <=> (sev.tag # "ConfigReloaded")
    /\ spc = "done" => dev = sev

C9_Witness ==
    /\ spc = "done"
    /\ sev = AssetTransition("AAPL", "halted", None)
    /\ dev = sev

\* The channel main constructed is there and open.
BusExists == cap = MainCapacity /\ txAlive /\ Live(0) /\ ~tail.closed

\* The initializers have all returned and main's scope has not ended.
StartupDone ==
    /\ exit = "none"
    /\ pc > StepOf("sysbus")
    /\ pc <= StepOf("info_shutdown")

\* C11 as stated: once the startup sequence has run, each of the ten subsystems
\* holds a live subscription of its own, so the channel counts, besides the
\* receiver main keeps, at least one receiver per subsystem, and is never without
\* a subsystem consumer.
C11_Original ==
    StartupDone =>
        /\ BusExists
        /\ tail.rx_cnt - 1 >= Cardinality(Subsystems)

\* C18: no init() runs before the channel is constructed or after it is closed,
\* each init() is invoked at most once at any time, and exactly once by the time
\* main goes on to wait for Ctrl+C.
C18_BusBeforeInits ==
    /\ [](\A x \in Subsystems : inits[x] <= 1 /\ (inits[x] = 1 => cap = MainCapacity))
    /\ [](pc > StepOf("sysbus") => \A x \in Subsystems : inits[x] = 1)
    /\ [][\A x \in Subsystems :
            inits'[x] # inits[x] =>
                BusExists /\ inits[x] = 0 /\ inits'[x] = 1]_vars

C18_Witness ==
    /\ StartupDone
    /\ BusExists
    /\ MainSteps[pc] = "await"
    /\ \A x \in Subsystems : inits[x] = 1

\* Some publish, some subscribe.
SendAny == \E e \in {Feed(Len(published) + 1)} : Send(e)
SubscribeAny == \E s \in Subs : Subscribe(s)

\* The positions the slots of the ring hold.
Held == {buffer[i].pos : i \in DOMAIN buffer} \cap Nat

\* C12: the ring has the number of slots fixed at construction (the capacity main
\* passes, 1024, is a power of two and is not rounded) and never grows; what it
\* holds is the last min(capacity, published) events, so never more than the
\* capacity; a publish on a full ring goes through in one step and replaces the
\* oldest entry; and publish and subscribe can be taken whatever the receivers
\* are doing (idle, behind, suspended or gone).
C12_BoundedNonBlocking ==
    /\ [](NextPowerOfTwo(MainCapacity) = MainCapacity)
    /\ [](/\ DOMAIN buffer = 0 .. cap - 1
          /\ Held = Retained
          /\ Cardinality(Held) <= cap)
    /\ [][/\ cap' = cap
          /\ DOMAIN buffer' = DOMAIN buffer
          /\ (Len(published') = Len(published) + 1 /\ Cardinality(Held) = cap) =>
                Held' = (Held \ {OldestRetained}) \cup {tail.pos}]_vars
    /\ []((txAlive /\ Len(published) < cap + MaxOver) => ENABLED SendAny)
    /\ []((txAlive /\ \E s \in Subs : rx[s].st = "none") => ENABLED SubscribeAny)

C12_Witness ==
    /\ Len(published) = cap + 1
    /\ Cardinality(Held) = cap
    /\ Live(0) /\ rx[0].next = 0 /\ out[0] = <<>>
    /\ \E s \in Subs : Suspended(s)

\* e was published before f.
PublishedBefore(e, f) ==
    \E m, n \in 1 .. Len(published) : m < n /\ published[m] = e /\ published[n] = f

C14_Original ==
    [][\A s \in Subs :
        (RecvStep(s) /\ tail.closed) => Last(out'[s]) = Closed]_vars

\* C14 amended: the shutdown is final (the channel stays closed and accepts no
\* further event).  A recv() returns Closed exactly when the channel is closed and
\* the receiver has read everything that was published; it leaves the cursor
\* where it is, so every later recv() on that receiver returns Closed as well.  A
\* receiver with buffered events left at the shutdown is still given them (or is
\* told Lagged) first.
C14_ClosedAfterDrain ==
    [][/\ tail.closed => (tail'.closed /\ published' = published /\ ~txAlive')
       /\ \A s \in Subs :
            RecvStep(s) =>
                /\ (Last(out'[s]) = Closed) <=> (tail.closed /\ rx[s].next = tail.pos)
                /\ Last(out'[s]) = Closed => rx'[s].next = rx[s].next
                /\ (out[s] # <<>> /\ Last(out[s]) = Closed) => Last(out'[s]) = Closed
      ]_vars

C14_Witness ==
    \E s, t \in Subs :
        /\ tail.closed /\ Live(s) /\ Live(t)
        /\ out[s] = <<Ok(Feed(1)), Closed, Closed>>
        /\ rx[t].next < tail.pos

\* This step drops the receiver s.
DropStep(s) == Live(s) /\ rx'[s].st = "dropped"

\* The entries of the ring: the position and the event of every slot.
Contents(buf) == [i \in DOMAIN buf |-> [pos |-> buf[i].pos, val |-> buf[i].val]]

\* C15 as stated: dropping a receiver leaves the entries of the ring, the write
\* cursor and every other receiver as they are.
C15_Original ==
    [][\A s \in Subs :
        DropStep(s) =>
            /\ Contents(buffer') = Contents(buffer)
            /\ tail'.pos = tail.pos
            /\ \A t \in Subs \ {s} : rx'[t] = rx[t] /\ out'[t] = out[t]]_vars

\* C15 amended: dropping a receiver leaves the write cursor, the closed flag, what
\* was published, and the cursor, the state and the results of every other
\* receiver as they are, and what each other receiver's next recv() returns and
\* every entry it has still to read are the same after the drop as before.  In the
\* ring the drop releases the events that only the dropped receiver had still to
\* read, and it lowers the receiver count that send reports by one.
C15_DropFrame ==
    [][\A s \in Subs :
        DropStep(s) =>
            /\ tail'.pos = tail.pos /\ tail'.closed = tail.closed
            /\ published' = published /\ cap' = cap /\ txAlive' = txAlive
            /\ tail'.rx_cnt = tail.rx_cnt - 1
            /\ \A t \in Subs \ {s} :
                /\ rx'[t] = rx[t] /\ out'[t] = out[t] /\ subPos'[t] = subPos[t]
                /\ (t \in tail'.waiters) <=> (t \in tail.waiters)
                /\ Live(t) =>
                    /\ RecvRef(t)'.res = RecvRef(t).res
                    /\ RecvRef(t)'.next = RecvRef(t).next
                    /\ \A p \in Retained :
                        rx[t].next <= p => buffer'[Idx(p)].val = buffer[Idx(p)].val
            /\ \A i \in DOMAIN buffer :
                /\ buffer'[i].pos = buffer[i].pos
                /\ \/ buffer'[i].val = buffer[i].val
                   \/ /\ buffer'[i].val = None
                      /\ rx[s].next <= buffer[i].pos
                      /\ buffer[i].rem = 1]_vars

C15_Witness ==
    /\ rx[0].st = "dropped" /\ Live(1)
    /\ recvCalls = 0
    /\ subPos[1] = 1 /\ rx[1].next < tail.pos
    /\ cap > 1
    /\ buffer[Idx(0)] = [pos |-> 0, rem |-> 0, val |-> None]

\* The suspended recv() of s has something to return: an event past its cursor
\* (or a lag), or the end of the channel.
Ready(s) ==
    Live(s) /\ rx[s].pc = "waiting" /\ (rx[s].next < tail.pos \/ tail.closed)

\* C16: under the fairness of FairSpec a suspended recv() that has something to
\* return does return (unless its receiver is dropped first), whatever the other
\* receivers do or fail to do; and a send can always be taken while the Sender
\* exists, whatever the receivers do.
C16_NextNeverDeadlocks ==
    /\ \A s \in Subs : Ready(s) ~> (~Live(s) \/ rx[s].pc = "idle")
    /\ []((txAlive /\ Len(published) < cap + MaxOver) => ENABLED SendAny)

C16_Witness ==
    \E s, t \in Subs :
        /\ s # t /\ Ready(s) /\ ~tail.closed
        /\ Live(t) /\ out[t] = <<>> /\ rx[t].pc = "idle" /\ Behind(t)

\* The value of the set_reload_handle call that took the write lock last.
LastWritten == IF lastLocked = 0 THEN NoneCell ELSE SomeCell(lastLocked)

\* This step returns from the get of r.
GetReturns(r) == rpc[r] = "copied" /\ rpc'[r] = "idle"

\* C17: whenever no set_reload_handle call holds the write lock, and so after any
\* set calls have completed, the cell holds the value of the call that took the
\* write lock last, whatever the order the calls were made in; the cell and the
\* last locker do not change while a get holds its read lock; and every get
\* returns that value, so never the value of a call that locked before another
\* call that had completed when the get started.
C17_LastWriteWins ==
    /\ [](rwWriters = {} => (cell = LastWritten /\ lastLocked \in completed \cup {0}))
    /\ [][\A r \in Readers :
            /\ rpc[r] \in {"locked", "half", "copied"} =>
                    cell' = cell /\ lastLocked' = lastLocked
            /\ GetReturns(r) => got'[r].val = LastWritten]_vars

C17_Witness ==
    \E r \in Readers :
        /\ completed = {1, 2} /\ lastLocked = 1
        /\ \A w \in Writers : wpc[w] = "idle"
        /\ rpc[r] = "idle" /\ got[r] = [val |-> SomeCell(1), done |-> 2]

\* C19: the cell is None until a set_reload_handle call stores into it; from the
\* first completed call on it is Some in every state, and no step turns a Some
\* cell into None; a get that returned None took its read lock when no call had
\* completed.
C19_CellMonotone ==
    /\ [](setCalls = 0 => cell = NoneCell)
    /\ [](completed # {} => cell.tag = "Some")
    /\ [](\A r \in Readers : got[r].val = NoneCell => got[r].done = 0)
    /\ [][cell.tag = "Some" => cell'.tag = "Some"]_vars

C19_Witness ==
    \E r \in Readers :
        /\ completed = {1, 2}
        /\ cell.tag = "Some"
        /\ rpc[r] = "idle" /\ got[r] = [val |-> NoneCell, done |-> 0]

\* The events s was given, and the sum of the counts of its Lagged results.
Received(s) == {out[s][i].val : i \in {j \in 1 .. Len(out[s]) : IsOk(out[s][j])}}

RECURSIVE SumLagged(_)
SumLagged(q) ==
    IF q = <<>>
    THEN 0
    ELSE (IF q[1].kind = "Lagged" THEN q[1].n ELSE 0) + SumLagged(Tail(q))

\* The positions published since s was created; those its cursor has passed
\* without s being given the event; and those its cursor has not reached.
SinceSubscribed(s) == subPos[s] .. tail.pos - 1
Skipped(s) ==
    LET given == Received(s)
    IN  {p \in SinceSubscribed(s) : p < rx[s].next /\ published[p + 1] \notin given}
Pending(s) == {p \in SinceSubscribed(s) : p >= rx[s].next}

\* C20: for every live receiver, the events it was given (each once), the sum of
\* the counts of its Lagged results and the events its cursor has not reached yet
\* add up to the events published since it was created; the events its cursor
\* passed without delivering them are exactly as many as its Lagged results
\* count, and every Lagged result counts at least one.
C20_LossAccounted ==
    [] \A s \in Subs :
        Live(s) =>
            LET given == Received(s)
                lagged == SumLagged(out[s])
            IN  /\ Cardinality(given) = Len(OkVals(out[s]))
                /\ \A e \in given :
                    \E p \in SinceSubscribed(s) :
                        p < rx[s].next /\ published[p + 1] = e
                /\ Cardinality(given) + lagged + Cardinality(Pending(s))
                        = tail.pos - subPos[s]
                /\ Cardinality(Skipped(s)) = lagged
                /\ \A i \in 1 .. Len(out[s]) :
                    out[s][i].kind = "Lagged" => out[s][i].n >= 1

C20_Witness ==
    \E s \in Subs :
        /\ Live(s)
        /\ SumLagged(out[s]) >= 2
        /\ Cardinality(Received(s)) >= 1
        /\ Cardinality(Pending(s)) >= 1
        /\ Len(published) > cap /\ cap > 1
====
